---- MODULE Spec2Model ----
(***************************************************************************)
(* Model of weedbox/gcp-modules, package bucket_connector                  *)
(* (src/bucket_connector/connector.go, the revision starting at line 142). *)
(*                                                                         *)
(* Strings are sequences of one-character strings, bytes are 0..255.       *)
(* The remote bucket is the variable store; the SDK calls the handlers     *)
(* make are recorded in ret so that their order can be stated.             *)
(***************************************************************************)
EXTENDS Integers, Sequences, FiniteSets, TLC

(***************************************************************************)
(* Characters.  AsciiTable[i] is the character with code 31 + i; the       *)
(* double quote, backslash and backtick are written as words.             *)
(***************************************************************************)
AsciiTable ==
   <<
      " ", "!", "DQUOTE", "#", "$", "%", "&", "'", "(", ")", "*", "+", ",", "-", ".", "/",
      "0", "1", "2", "3", "4", "5", "6", "7", "8", "9", ":", ";", "<", "=", ">", "?",
      "@", "A", "B", "C", "D", "E", "F", "G", "H", "I", "J", "K", "L", "M", "N", "O",
      "P", "Q", "R", "S", "T", "U", "V", "W", "X", "Y", "Z", "[", "BACKSLASH", "]", "^", "_",
      "BACKTICK", "a", "b", "c", "d", "e", "f", "g", "h", "i", "j", "k", "l", "m", "n", "o",
      "p", "q", "r", "s", "t", "u", "v", "w", "x", "y", "z", "{", "|", "}", "~"
   >>

Chars == {AsciiTable[i] : i \in 1..Len(AsciiTable)}

OrdTable == [c \in Chars |-> 31 + (CHOOSE i \in 1..Len(AsciiTable) : AsciiTable[i] = c)]

Ord(c) == OrdTable[c]

Chr(n) == AsciiTable[n - 31]

IsAlnum(c) ==
   \/ (Ord(c) >= 48 /\ Ord(c) <= 57)
   \/ (Ord(c) >= 65 /\ Ord(c) <= 90)
   \/ (Ord(c) >= 97 /\ Ord(c) <= 122)

IsHex(c) ==
   \/ (Ord(c) >= 48 /\ Ord(c) <= 57)
   \/ (Ord(c) >= 65 /\ Ord(c) <= 70)
   \/ (Ord(c) >= 97 /\ Ord(c) <= 102)

UnHex(c) ==
   IF Ord(c) <= 57 THEN Ord(c) - 48
   ELSE IF Ord(c) <= 70 THEN Ord(c) - 55
   ELSE Ord(c) - 87

UpperHex(n) == IF n < 10 THEN Chr(48 + n) ELSE Chr(55 + n)

(* strings.HasPrefix *)
HasPrefix(s, p) == Len(p) <= Len(s) /\ SubSeq(s, 1, Len(p)) = p

(* byte-wise lexicographic order, the order in which the store lists names *)
RECURSIVE StrLess(_, _)
StrLess(s, t) ==
   IF t = <<>> THEN FALSE
   ELSE IF s = <<>> THEN TRUE
   ELSE IF Head(s) = Head(t) THEN StrLess(Tail(s), Tail(t))
   ELSE Ord(Head(s)) < Ord(Head(t))

RECURSIVE SortNames(_)
SortNames(S) ==
   IF S = {} THEN <<>>
   ELSE LET m == CHOOSE x \in S : \A y \in S \ {x} : StrLess(x, y)
        IN  <<m>> \o SortNames(S \ {m})

(* index of the first occurrence of c in s, 0 when absent *)
IndexOf(s, c) ==
   IF \E i \in 1..Len(s) : s[i] = c
   THEN CHOOSE i \in 1..Len(s) : s[i] = c /\ \A j \in 1..(i - 1) : s[j] # c
   ELSE 0

(* strings.Cut *)
Cut(s, c) ==
   LET i == IndexOf(s, c)
   IN  IF i = 0 THEN [before |-> s, after |-> <<>>, found |-> FALSE]
       ELSE [before |-> SubSeq(s, 1, i - 1), after |-> SubSeq(s, i + 1, Len(s)),
             found |-> TRUE]

(***************************************************************************)
(* net/url as used by WriteAsFile and SaveFile: url.Parse of               *)
(* "<bucket>/<name>" followed by EscapedPath.                              *)
(***************************************************************************)
(* url.shouldEscape in encodePath mode *)
ShouldEscape(c) ==
   IF IsAlnum(c) THEN FALSE
   ELSE IF c \in {"-", "_", ".", "~"} THEN FALSE
   ELSE IF c \in {"$", "&", "+", ",", "/", ":", ";", "=", "@"} THEN FALSE
   ELSE TRUE

(* url.escape in encodePath mode *)
RECURSIVE Escape(_)
Escape(s) ==
   IF s = <<>> THEN <<>>
   ELSE LET c == Head(s)
        IN  (IF ShouldEscape(c)
             THEN <<"%", UpperHex(Ord(c) \div 16), UpperHex(Ord(c) % 16)>>
             ELSE <<c>>) \o Escape(Tail(s))

(* url.unescape in encodePath / encodeFragment mode: ok is FALSE on an    *)
(* EscapeError ("%" not followed by two hex digits)                        *)
RECURSIVE Unescape(_)
Unescape(s) ==
   IF s = <<>> THEN [ok |-> TRUE, out |-> <<>>]
   ELSE IF Head(s) = "%"
        THEN IF Len(s) < 3 \/ ~IsHex(s[2]) \/ ~IsHex(s[3])
             THEN [ok |-> FALSE, out |-> <<>>]
             ELSE LET r == Unescape(SubSeq(s, 4, Len(s)))
                  IN  [ok |-> r.ok,
                       out |-> <<Chr(16 * UnHex(s[2]) + UnHex(s[3]))>> \o r.out]
        ELSE LET r == Unescape(Tail(s))
             IN  [ok |-> r.ok, out |-> <<Head(s)>> \o r.out]

(* url.validEncoded in encodePath mode *)
ValidEncoded(s) ==
   \A i \in 1..Len(s) :
      \/ s[i] \in {"!", "$", "&", "'", "(", ")", "*", "+", ",", ";", "=", ":", "@",
                   "[", "]", "%"}
      \/ ~ShouldEscape(s[i])

(* url.Parse for a string without scheme and authority (the bucket name   *)
(* comes first and is followed by "/"): cut the fragment at the first "#", *)
(* the query at the first "?", then URL.setPath and URL.setFragment.       *)
UrlParse(raw) ==
   LET f    == Cut(raw, "#")
       q    == Cut(f.before, "?")
       p    == q.before
       un   == Unescape(p)
       fr   == Unescape(f.after)
   IN  IF ~un.ok \/ ~fr.ok
       THEN [ok |-> FALSE, Path |-> <<>>, RawPath |-> <<>>]
       ELSE [ok |-> TRUE, Path |-> un.out,
             RawPath |-> IF Escape(un.out) = p THEN <<>> ELSE p]

(* URL.EscapedPath *)
EscapedPath(u) ==
   IF /\ u.RawPath # <<>>
      /\ ValidEncoded(u.RawPath)
      /\ Unescape(u.RawPath).ok
      /\ Unescape(u.RawPath).out = u.Path
   THEN u.RawPath
   ELSE IF u.Path = <<"*">> THEN <<"*">>
   ELSE Escape(u.Path)

(***************************************************************************)
(* encoding/base64, StdEncoding, as read through base64.NewDecoder by      *)
(* io.Copy: the bytes decoded before the first error are handed to the     *)
(* writer, then the error is returned.                                     *)
(***************************************************************************)
B64Table ==
   <<
      "A", "B", "C", "D", "E", "F", "G", "H", "I", "J", "K", "L", "M", "N", "O", "P",
      "Q", "R", "S", "T", "U", "V", "W", "X", "Y", "Z", "a", "b", "c", "d", "e", "f",
      "g", "h", "i", "j", "k", "l", "m", "n", "o", "p", "q", "r", "s", "t", "u", "v",
      "w", "x", "y", "z", "0", "1", "2", "3", "4", "5", "6", "7", "8", "9", "+", "/"
   >>

B64Chars == {B64Table[i] : i \in 1..64}

(* Encoding.decodeMap *)
DecodeMap == [c \in B64Chars |-> (CHOOSE i \in 1..64 : B64Table[i] = c) - 1]

IsB64(c) == c \in B64Chars

B64Val(c) == DecodeMap[c]

(* the three bytes of a 24-bit value *)
Bytes3(val) == <<(val \div 65536) % 256, (val \div 256) % 256, val % 256>>

(* Encoding.decodeQuantum on the 4 characters q, more telling whether     *)
(* input follows the quantum: the bytes produced and whether it erred.     *)
DecodeQuantum(q, more) ==
   LET V(i) == IF IsB64(q[i]) THEN B64Val(q[i]) ELSE 0
       j == IF \E i \in 1..4 : ~IsB64(q[i])
            THEN (CHOOSE i \in 1..4 : ~IsB64(q[i]) /\ \A k \in 1..(i - 1) : IsB64(q[k])) - 1
            ELSE 4
       val == IF j = 4 THEN V(1) * 262144 + V(2) * 4096 + V(3) * 64 + V(4)
              ELSE IF j = 3 THEN V(1) * 262144 + V(2) * 4096 + V(3) * 64
              ELSE V(1) * 262144 + V(2) * 4096
   IN  IF j = 4 THEN [out |-> Bytes3(val), bad |-> FALSE]
       ELSE IF q[j + 1] # "=" THEN [out |-> <<>>, bad |-> TRUE]
       ELSE IF j < 2 THEN [out |-> <<>>, bad |-> TRUE]
       ELSE IF j = 2 /\ q[4] # "=" THEN [out |-> <<>>, bad |-> TRUE]
       ELSE [out |-> SubSeq(Bytes3(val), 1, j - 1), bad |-> more]

(* Encoding.Decode on a source whose length is a multiple of 4 *)
RECURSIVE Decode(_)
Decode(src) ==
   IF src = <<>> THEN [out |-> <<>>, bad |-> FALSE]
   ELSE LET d == DecodeQuantum(SubSeq(src, 1, 4), Len(src) > 4)
        IN  IF d.bad THEN d
            ELSE LET r == Decode(SubSeq(src, 5, Len(src)))
                 IN  [out |-> d.out \o r.out, bad |-> r.bad]

(* decoder.Read until it fails or reaches EOF, for an input shorter than  *)
(* the decoder's 1024-byte buffer: the complete quanta are decoded, then   *)
(* leftover characters give io.ErrUnexpectedEOF.                           *)
DecodeStream(raw) ==
   LET nr == (Len(raw) \div 4) * 4
       d  == Decode(SubSeq(raw, 1, nr))
   IN  IF d.bad THEN [out |-> d.out, err |-> "CorruptInputError"]
       ELSE IF Len(raw) > nr THEN [out |-> d.out, err |-> "ErrUnexpectedEOF"]
       ELSE [out |-> d.out, err |-> ""]

(***************************************************************************)
(* Bounds and input sets.                                                  *)
(***************************************************************************)
MaxObjects == 2

MaxUuid == 2

(* DefaultBucketName, the value viper returns for "<scope>.bucket_name" *)
DefaultBucketName == <<"e", "x", "a", "m", "p", "l", "e", ".", "c", "o", "m">>

FilePaths ==
   { <<"a", "/", "b">>, <<"a", "/", "b", "?", "c">>, <<"b", "/", " ", "c">>,
     <<"b", "/", "%", "4", "1">>, <<"b", "/", "%", "z">> }

MaxBucket == 3

(* the names of the objects other users of the bucket keep in it *)
OtherNames ==
   { <<"a", "/", "b">>, <<"a", "/", "b", "?", "c">>, <<"a", "/", "c">>, <<"b", "/", "c">> }

Prefixes == { <<"a", "/">>, <<"a", "/", "b">>, <<"c">> }

Contents == { <<>>, <<65>> }

Categories == { <<"a">> }

FileNames == { <<>>, <<"b", "#", "c">> }

(* "QQ==" is valid; the others are malformed at some position *)
RawDatas ==
   { <<"Q", "Q", "=", "=">>,
     <<"!", "!", "!", "!">>, <<"Q", "U", "J", "D", "!", "!", "!", "!">>,
     <<"Q", "U", "J", "D", "Q", "Q">>, <<"Q", "Q", "=", "=", "Q", "U", "J", "D">> }

(* errors the remote store can answer a request with, "" being success *)
RemoteErrs == {"ErrForbidden", "ErrUnavailable"}

(* uuid.New().String(): the n-th identifier drawn *)
UuidString(n) == <<"u", Chr(48 + n)>>

(* the decoder's output for every RawData of the model, computed once *)
DecodeTable == [r \in RawDatas |-> DecodeStream(r)]

(***************************************************************************)
(* State.                                                                  *)
(***************************************************************************)
VARIABLES
   lifecycle,  \* fx hooks run so far: "created", "startFailed", "started", "stopped"
   client,     \* BucketConnector.client: "nil" or the handle "c1"
   closed,     \* whether Close has been called on the storage client
   store,      \* the bucket: a set of objects [name, content, acl, by]
   uuidCount,  \* identifiers drawn from uuid.New so far
   pc,         \* "idle", or "deleting" inside DeleteFileWithPrefix's loop
   it,         \* the names the object iterator has still to yield
   ret         \* the last call: its arguments, SDK calls and result

vars == <<lifecycle, client, closed, store, uuidCount, pc, it, ret>>

Names(st) == {o.name : o \in st}

Remove(st, n) == {o \in st : o.name # n}

EmptyRet ==
   [op |-> "none", state |-> "nil", outcome |-> "none", err |-> "", sdkErr |-> "",
    url |-> <<>>, path |-> <<>>, fileName |-> <<>>, category |-> <<>>,
    rawData |-> <<>>, uuid |-> <<>>, written |-> <<>>, sdk |-> <<>>,
    handle |-> "nil", handleClosed |-> FALSE,
    listed |-> <<>>, issued |-> <<>>, snap |-> {}, otherTouched |-> {},
    otherCreated |-> FALSE]

(* whether Client.Bucket itself faults on a nil client depends on the SDK *)
BucketPanics == IF client = "nil" THEN BOOLEAN ELSE {FALSE}

(* what a remote call on c.client does: "ok" on a live client, "panic" on *)
(* a nil one; on a closed client it depends on the SDK build whether the   *)
(* call still goes through or faults                                       *)
RemoteModes ==
   IF client = "nil" THEN {"panic"}
   ELSE IF closed THEN {"ok", "panic"}
   ELSE {"ok"}

ClientState == IF client = "nil" THEN "nil" ELSE IF closed THEN "closed" ELSE "live"

Init ==
   /\ lifecycle = "created"
   /\ client = "nil"
   /\ closed = FALSE
   /\ store = {}
   /\ uuidCount = 0
   /\ pc = "idle"
   /\ it = <<>>
   /\ ret = EmptyRet

(***************************************************************************)
(* Lifecycle hooks.                                                        *)
(***************************************************************************)
onStart ==
   /\ lifecycle = "created"
   /\ pc = "idle"
   /\ \E newClientFails \in BOOLEAN :
         IF newClientFails
         THEN /\ lifecycle' = "startFailed"
              /\ client' = client
              /\ ret' = [EmptyRet EXCEPT !.op = "onStart", !.state = ClientState,
                                         !.outcome = "error", !.err = "ErrNewClient"]
         ELSE /\ lifecycle' = "started"
              /\ client' = "c1"
              /\ ret' = [EmptyRet EXCEPT !.op = "onStart", !.state = ClientState,
                                         !.outcome = "ok"]
   /\ UNCHANGED <<closed, store, uuidCount, pc, it>>

ClientClearedAfterStop(c) == "nil"

(* onStop does not assign c.client *)
ClientAfterStop(c) == c

onStop ==
   /\ lifecycle = "started"
   /\ pc = "idle"
   /\ lifecycle' = "stopped"
   /\ closed' = TRUE
   /\ client' = ClientAfterStop(client)
   /\ \E closeErr \in {"", "ErrClose"} :
         ret' = [EmptyRet EXCEPT !.op = "onStop", !.state = ClientState,
                                 !.sdk = <<"Client.Close">>,
                                 !.outcome = IF closeErr = "" THEN "ok" ELSE "error",
                                 !.err = closeErr]
   /\ UNCHANGED <<store, uuidCount, pc, it>>

GetClient ==
   /\ pc = "idle"
   /\ ret' = [EmptyRet EXCEPT !.op = "GetClient", !.state = ClientState,
                              !.outcome = "ok", !.handle = client,
                              !.handleClosed = closed]
   /\ UNCHANGED <<lifecycle, client, closed, store, uuidCount, pc, it>>

(***************************************************************************)
(* The SDK as the handlers use it.                                         *)
(***************************************************************************)
(* a finished upload: the object replaces any object of the same name and *)
(* carries the ACL the writer had when it was opened                       *)
Upload(st, name, content, acl) ==
   Remove(st, name) \cup {[name |-> name, content |-> content, acl |-> acl, by |-> "self"]}

(* ObjectHandle.Delete *)
SdkDelete(st, name, mode, fault) ==
   IF mode = "panic" THEN [store |-> st, outcome |-> "panic", err |-> ""]
   ELSE IF mode = "error" THEN [store |-> st, outcome |-> "error", err |-> "ErrClientClosed"]
   ELSE IF fault # "" THEN [store |-> st, outcome |-> "error", err |-> fault]
   ELSE IF name \notin Names(st)
        THEN [store |-> st, outcome |-> "error", err |-> "ErrObjectNotExist"]
   ELSE [store |-> Remove(st, name), outcome |-> "ok", err |-> ""]

(* io.Copy(w, reader) followed by w.Close(): the reader yields bytes and  *)
(* then srcErr ("" for EOF).  Write is called only for a non-empty read;   *)
(* an error of either io.Copy or Close is returned and the writer is left  *)
(* as it is.                                                               *)
CopyAndClose(st, name, acl, bytes, srcErr, mode, fail) ==
   LET wr   == bytes # <<>>
       wsdk == IF wr THEN <<"Write">> ELSE <<>>
       wrt  == IF wr THEN bytes ELSE <<>>
       R(s2, oc, e, sdk) ==
          [store |-> s2, outcome |-> oc, err |-> e, sdk |-> sdk, written |-> wrt]
   IN  IF wr /\ mode = "panic" THEN R(st, "panic", "", wsdk)
       ELSE IF wr /\ mode = "error" THEN R(st, "error", "ErrClientClosed", wsdk)
       ELSE IF wr /\ fail = "write" THEN R(st, "error", "ErrWrite", wsdk)
       ELSE IF srcErr # "" THEN R(st, "error", srcErr, wsdk)
       ELSE IF mode = "panic" THEN R(st, "panic", "", wsdk \o <<"Close">>)
       ELSE IF mode = "error" THEN R(st, "error", "ErrClientClosed", wsdk \o <<"Close">>)
       ELSE IF fail = "close" THEN R(st, "error", "ErrClose", wsdk \o <<"Close">>)
       ELSE R(Upload(st, name, bytes, acl), "ok", "", wsdk \o <<"Close">>)

(* url.Parse("<bucket>/<name>") and "https://" + u.EscapedPath() *)
ExternalUrl(bucket, name) ==
   LET u == UrlParse(bucket \o <<"/">> \o name)
   IN  IF u.ok
       THEN [ok |-> TRUE, url |-> <<"h", "t", "t", "p", "s", ":", "/", "/">> \o EscapedPath(u)]
       ELSE [ok |-> FALSE, url |-> <<>>]

(* the names the handlers of the model can write, and the URL of each,    *)
(* computed once                                                           *)
ObjectNames ==
   FilePaths \cup
   {c \o <<"/">> \o f : c \in Categories,
                        f \in (FileNames \ {<<>>}) \cup {UuidString(n) : n \in 0..MaxUuid}}

UrlTable == [n \in ObjectNames |-> ExternalUrl(DefaultBucketName, n)]

(***************************************************************************)
(* WriteAsFile                                                             *)
(***************************************************************************)
WriteAsFileACL == <<[Entity |-> "allUsers", Role |-> "READER"]>>

WriteAsFileRun(st, filePath, content, mode, bucketPanics, fail) ==
   LET base == [EmptyRet EXCEPT !.op = "WriteAsFile", !.path = filePath]
       r    == CopyAndClose(st, filePath, WriteAsFileACL, content, "", mode, fail)
       sdk  == <<"Bucket", "NewWriter", "ACL">> \o r.sdk
       u    == UrlTable[filePath]
   IN  IF bucketPanics
       THEN [store |-> st,
             ret |-> [base EXCEPT !.outcome = "panic", !.sdk = <<"Bucket">>]]
       ELSE IF r.outcome # "ok"
       THEN [store |-> r.store,
             ret |-> [base EXCEPT !.outcome = r.outcome, !.err = r.err, !.sdk = sdk,
                                  !.written = r.written]]
       ELSE IF ~u.ok
       THEN [store |-> r.store,
             ret |-> [base EXCEPT !.outcome = "error", !.err = "EscapeError",
                                  !.sdk = sdk, !.written = r.written]]
       ELSE [store |-> r.store,
             ret |-> [base EXCEPT !.outcome = "ok", !.url = u.url, !.sdk = sdk,
                                  !.written = r.written]]

WriteAsFile ==
   /\ pc = "idle"
   /\ \E filePath \in FilePaths, content \in Contents, mode \in RemoteModes,
         bucketPanics \in BucketPanics, fail \in {"none", "write", "close"} :
         /\ filePath \in Names(store) \/ Cardinality(store) < MaxObjects
         /\ LET r == WriteAsFileRun(store, filePath, content, mode,
                                    bucketPanics, fail)
            IN  /\ store' = r.store
                /\ ret' = [r.ret EXCEPT !.state = ClientState]
   /\ UNCHANGED <<lifecycle, client, closed, uuidCount, pc, it>>

(***************************************************************************)
(* SaveFile                                                                *)
(***************************************************************************)
SaveFileNoACL == <<>>

SaveFileACL == <<[Entity |-> "allUsers", Role |-> "READER"]>>

(* fileName := uuid; if req.FileName != "" { fileName = req.FileName };   *)
(* filePath := Category + "/" + fileName                                   *)
SaveFilePath(req, uuid) ==
   req.Category \o <<"/">> \o (IF req.FileName # <<>> THEN req.FileName ELSE uuid)

SaveFileRun(st, req, uuid, mode, bucketPanics, fail) ==
   LET filePath == SaveFilePath(req, uuid)
       base == [EmptyRet EXCEPT !.op = "SaveFile", !.path = filePath,
                                !.fileName = req.FileName, !.category = req.Category,
                                !.rawData = req.RawData, !.uuid = uuid]
       dec  == DecodeTable[req.RawData]
       r    == CopyAndClose(st, filePath, SaveFileACL, dec.out, dec.err, mode, fail)
       sdk  == <<"Bucket", "NewWriter", "ACL">> \o r.sdk
       u    == UrlTable[filePath]
   IN  IF bucketPanics
       THEN [store |-> st,
             ret |-> [base EXCEPT !.outcome = "panic", !.sdk = <<"Bucket">>]]
       ELSE IF r.outcome # "ok"
       THEN [store |-> r.store,
             ret |-> [base EXCEPT !.outcome = r.outcome, !.err = r.err, !.sdk = sdk,
                                  !.written = r.written]]
       ELSE IF ~u.ok
       THEN [store |-> r.store,
             ret |-> [base EXCEPT !.outcome = "error", !.err = "EscapeError",
                                  !.sdk = sdk, !.written = r.written]]
       ELSE [store |-> r.store,
             ret |-> [base EXCEPT !.outcome = "ok", !.url = u.url, !.sdk = sdk,
                                  !.written = r.written]]

SaveFile ==
   /\ pc = "idle"
   /\ uuidCount < MaxUuid
   /\ \E category \in Categories, fileName \in FileNames, rawData \in RawDatas,
         mode \in RemoteModes, bucketPanics \in BucketPanics,
         fail \in {"none", "write", "close"} :
         LET req  == [FileName |-> fileName, Category |-> category, RawData |-> rawData]
             uuid == UuidString(uuidCount)
             r    == SaveFileRun(store, req, uuid, mode, bucketPanics, fail)
         IN  /\ SaveFilePath(req, uuid) \in Names(store) \/ Cardinality(store) < MaxObjects
             /\ store' = r.store
             /\ ret' = [r.ret EXCEPT !.state = ClientState]
   /\ uuidCount' = uuidCount + 1
   /\ UNCHANGED <<lifecycle, client, closed, pc, it>>

(***************************************************************************)
(* DeleteFile                                                              *)
(***************************************************************************)
DeleteFileErrAsIs(sdkErr) == sdkErr

(* if err == storage.ErrObjectNotExist { return nil }; return err *)
DeleteFileErr(sdkErr) == IF sdkErr = "ErrObjectNotExist" THEN "" ELSE sdkErr

DeleteFileRun(st, filePath, mode, bucketPanics, fault) ==
   LET base == [EmptyRet EXCEPT !.op = "DeleteFile", !.path = filePath]
       d    == SdkDelete(st, filePath, mode, fault)
   IN  IF bucketPanics
       THEN [store |-> st,
             ret |-> [base EXCEPT !.outcome = "panic", !.sdk = <<"Bucket">>]]
       ELSE IF d.outcome = "panic"
       THEN [store |-> st,
             ret |-> [base EXCEPT !.outcome = "panic", !.sdk = <<"Bucket", "Delete">>]]
       ELSE [store |-> d.store,
             ret |-> [base EXCEPT !.outcome = IF DeleteFileErr(d.err) = "" THEN "ok"
                                              ELSE "error",
                                  !.err = DeleteFileErr(d.err), !.sdkErr = d.err,
                                  !.sdk = <<"Bucket", "Delete">>]]

DeleteFile ==
   /\ pc = "idle"
   /\ \E filePath \in FilePaths, mode \in RemoteModes, bucketPanics \in BucketPanics,
         fault \in {""} \cup RemoteErrs :
         LET r == DeleteFileRun(store, filePath, mode, bucketPanics, fault)
         IN  /\ store' = r.store
             /\ ret' = [r.ret EXCEPT !.state = ClientState]
   /\ UNCHANGED <<lifecycle, client, closed, uuidCount, pc, it>>

(***************************************************************************)
(* DeleteFileWithPrefix.  The listing is one page, fetched by the first    *)
(* it.Next(); every later step deletes the next listed object.  Between    *)
(* the steps other users of the bucket may delete and create objects.      *)
(***************************************************************************)
ListQueryAll(st, prefix) == Names(st)

ListQueryExact(st, prefix) == {n \in Names(st) : n = prefix}

(* bucket.Objects(ctx, &storage.Query{Prefix: filePath}) *)
ListQuery(st, prefix) == {n \in Names(st) : HasPrefix(n, prefix)}

DeleteContinuesAlways(err) == TRUE

(* the loop goes on unless err != nil && err != storage.ErrObjectNotExist *)
DeleteContinues(err) == err = "" \/ err = "ErrObjectNotExist"

DeleteFileWithPrefix ==
   /\ pc = "idle"
   /\ \E prefix \in Prefixes, mode \in RemoteModes, bucketPanics \in BucketPanics,
         listErr \in {""} \cup RemoteErrs :
         LET base   == [EmptyRet EXCEPT !.op = "DeleteFileWithPrefix", !.path = prefix,
                                        !.state = ClientState, !.snap = store]
             listed == SortNames(ListQuery(store, prefix))
         IN  IF bucketPanics
             THEN /\ ret' = [base EXCEPT !.outcome = "panic", !.sdk = <<"Bucket">>]
                  /\ UNCHANGED <<pc, it>>
             ELSE IF mode = "panic"
             THEN /\ ret' = [base EXCEPT !.outcome = "panic",
                                         !.sdk = <<"Bucket", "Objects", "Next">>]
                  /\ UNCHANGED <<pc, it>>
             ELSE IF mode = "error" \/ listErr # ""
             THEN /\ ret' = [base EXCEPT !.outcome = "error",
                                         !.err = IF mode = "error" THEN "ErrClientClosed"
                                                 ELSE listErr,
                                         !.sdk = <<"Bucket", "Objects", "Next">>]
                  /\ UNCHANGED <<pc, it>>
             ELSE IF listed = <<>>
             THEN /\ ret' = [base EXCEPT !.outcome = "ok",
                                         !.sdk = <<"Bucket", "Objects", "Next">>]
                  /\ UNCHANGED <<pc, it>>
             ELSE /\ ret' = [base EXCEPT !.outcome = "pending", !.listed = listed,
                                         !.sdk = <<"Bucket", "Objects", "Next">>]
                  /\ pc' = "deleting"
                  /\ it' = listed
   /\ UNCHANGED <<lifecycle, client, closed, store, uuidCount>>

DeleteNext ==
   /\ pc = "deleting"
   /\ \E fault \in {""} \cup RemoteErrs :
         LET name == Head(it)
             d    == SdkDelete(store, name, "ok", fault)
             r1   == [ret EXCEPT !.issued = Append(ret.issued, [name |-> name, err |-> d.err]),
                                 !.sdk = ret.sdk \o <<"Delete">>]
         IN  /\ store' = d.store
             /\ IF ~DeleteContinues(d.err)
                THEN /\ ret' = [r1 EXCEPT !.outcome = "error", !.err = d.err]
                     /\ pc' = "idle"
                     /\ it' = <<>>
                ELSE IF Tail(it) = <<>>
                THEN /\ ret' = [r1 EXCEPT !.outcome = "ok", !.sdk = r1.sdk \o <<"Next">>]
                     /\ pc' = "idle"
                     /\ it' = <<>>
                ELSE /\ ret' = [r1 EXCEPT !.sdk = r1.sdk \o <<"Next">>]
                     /\ pc' = "deleting"
                     /\ it' = Tail(it)
   /\ UNCHANGED <<lifecycle, client, closed, uuidCount>>

OtherObject(name) == [name |-> name, content |-> <<>>, acl |-> <<>>, by |-> "other"]

(* another user of the bucket, while a prefix deletion is in progress *)
OtherDelete ==
   /\ pc = "deleting"
   /\ \E o \in store :
         /\ store' = store \ {o}
         /\ ret' = [ret EXCEPT !.otherTouched = ret.otherTouched \cup {o.name}]
   /\ UNCHANGED <<lifecycle, client, closed, uuidCount, pc, it>>

OtherCreate ==
   /\ pc = "deleting"
   /\ \E name \in OtherNames :
         /\ name \in Names(store) \/ Cardinality(store) < MaxBucket
         /\ store' = Remove(store, name) \cup {OtherObject(name)}
         /\ ret' = [ret EXCEPT !.otherTouched = ret.otherTouched \cup {name},
                               !.otherCreated = TRUE]
   /\ UNCHANGED <<lifecycle, client, closed, uuidCount, pc, it>>

(***************************************************************************)
(* Spec: the component from construction on, its hooks and its             *)
(* single-request operations, on a bucket nobody else uses.                *)
(***************************************************************************)
Next ==
   \/ onStart
   \/ onStop
   \/ GetClient
   \/ WriteAsFile
   \/ SaveFile
   \/ DeleteFile

Spec == Init /\ [][Next]_vars

(***************************************************************************)
(* SpecPrefix: the component from construction on, its hooks and prefix    *)
(* deletion, on a bucket that other users filled and keep using.           *)
(***************************************************************************)
InitPrefix ==
   /\ lifecycle = "created"
   /\ client = "nil"
   /\ closed = FALSE
   /\ \E N \in SUBSET OtherNames :
         /\ Cardinality(N) <= MaxBucket
         /\ store = {OtherObject(n) : n \in N}
   /\ uuidCount = 0
   /\ pc = "idle"
   /\ it = <<>>
   /\ ret = EmptyRet

NextPrefix ==
   \/ onStart
   \/ onStop
   \/ DeleteFileWithPrefix
   \/ DeleteNext
   \/ OtherDelete
   \/ OtherCreate

SpecPrefix == InitPrefix /\ [][NextPrefix]_vars

(***************************************************************************)
(* Properties.                                                             *)
(***************************************************************************)

(* C1: an operation called on a connector whose start hook has not run    *)
(* returns an explicit "not initialized" error and does not fault.         *)
C1_NotInitializedError ==
   (/\ ret.op \in {"SaveFile", "WriteAsFile", "DeleteFile", "DeleteFileWithPrefix"}
    /\ ret.state = "nil")
   => (ret.outcome = "error" /\ ret.err = "ErrNotInitialized")

(* C2: SaveFile on RawData that is not valid base64 returns an error and  *)
(* hands no byte to an object writer.                                      *)
C2_MalformedNoRemoteWrite ==
   (/\ ret.op = "SaveFile"
    /\ ret.state = "live"
    /\ DecodeStream(ret.rawData).err # "")
   => (/\ ret.outcome = "error"
       /\ ret.written = <<>>
       /\ \A i \in 1..Len(ret.sdk) : ret.sdk[i] # "Write")

(* C3: in DeleteFileWithPrefix the deletes are issued in listing order;   *)
(* a deletion error other than not-found is returned at once, no delete is *)
(* issued for a later object, which stays in the bucket, and the objects   *)
(* deleted before stay deleted; a not-found result does not end the loop.  *)
C3_AbortOnDeleteError ==
   ret.op = "DeleteFileWithPrefix" =>
      LET k == Len(ret.issued)
          n == Len(ret.listed)
      IN  /\ k <= n
          /\ \A i \in 1..k : ret.issued[i].name = ret.listed[i]
          /\ \A i \in 1..(k - 1) : ret.issued[i].err \in {"", "ErrObjectNotExist"}
          /\ (k >= 1 /\ ret.issued[k].err \notin {"", "ErrObjectNotExist"}) =>
                /\ pc = "idle"
                /\ ret.outcome = "error"
                /\ ret.err = ret.issued[k].err
                /\ \A j \in (k + 1)..n :
                      ret.listed[j] \notin ret.otherTouched =>
                         \E o \in store : o.name = ret.listed[j] /\ o \in ret.snap
                /\ \A i \in 1..(k - 1) :
                      (ret.issued[i].err = "" /\ ret.listed[i] \notin ret.otherTouched)
                         => ret.listed[i] \notin Names(store)
          /\ (k >= 1 /\ ret.issued[k].err \in {"", "ErrObjectNotExist"}) =>
                IF k < n
                THEN /\ pc = "deleting"
                     /\ ret.outcome = "pending"
                     /\ it = SubSeq(ret.listed, k + 1, n)
                ELSE pc = "idle" /\ ret.outcome = "ok" /\ ret.err = ""

C3_Witness ==
   /\ ret.op = "DeleteFileWithPrefix"
   /\ ret.outcome = "error"
   /\ Len(ret.listed) = 3
   /\ Len(ret.issued) = 2
   /\ ret.issued[1].err = ""
   /\ ret.issued[2].err = "ErrForbidden"
   /\ ret.listed[1] \notin Names(store)
   /\ ret.listed[3] \in Names(store)

(* C4: DeleteFile on a path without object returns nil and leaves the     *)
(* bucket as it is, a second call after a successful one gives the same    *)
(* bucket and nil again, and any other failure is returned as it is.       *)
C4_DeleteFileIdempotent ==
   [][
      (ret'.op = "DeleteFile" /\ ret'.outcome # "panic") =>
         /\ (ret'.path \notin Names(store) /\ ret'.sdkErr \notin RemoteErrs) =>
               (ret'.outcome = "ok" /\ ret'.err = "" /\ store' = store)
         /\ ret'.sdkErr \in RemoteErrs =>
               (ret'.outcome = "error" /\ ret'.err = ret'.sdkErr /\ store' = store)
         /\ ret'.outcome = "ok" =>
               LET again == DeleteFileRun(store', ret'.path, "ok", FALSE, "")
               IN  /\ ret'.path \notin Names(store')
                   /\ again.store = store'
                   /\ again.ret.err = ""
                   /\ again.ret.outcome = "ok"
   ]_vars

C4_Witness ==
   /\ ret.op = "DeleteFile"
   /\ ret.state = "live"
   /\ ret.sdkErr = "ErrObjectNotExist"
   /\ ret.outcome = "ok"
   /\ store # {}

(* C5: a successful SaveFile of valid base64 has written the object       *)
(* "<Category>/<name>", name being FileName or else the generated uuid,    *)
(* and the path of the returned URL is that object path.                   *)
C5_UrlPathIsObjectPath ==
   (/\ ret.op = "SaveFile"
    /\ ret.state = "live"
    /\ DecodeStream(ret.rawData).err = ""
    /\ ret.outcome = "ok")
   => LET name == IF ret.fileName # <<>> THEN ret.fileName ELSE ret.uuid
          lead == <<"h", "t", "t", "p", "s", ":", "/", "/">> \o DefaultBucketName \o <<"/">>
      IN  /\ ret.path = ret.category \o <<"/">> \o name
          /\ ret.path \in Names(store)
          /\ HasPrefix(ret.url, lead)
          /\ Unescape(SubSeq(ret.url, Len(lead) + 1, Len(ret.url))).ok
          /\ Unescape(SubSeq(ret.url, Len(lead) + 1, Len(ret.url))).out = ret.path

(* C6: the URL a successful SaveFile or WriteAsFile returns is            *)
(* "https://<bucket>/<path-escaped object path>" for the whole object path.*)
C6_UrlIsEscapedObjectPath ==
   (ret.op \in {"SaveFile", "WriteAsFile"} /\ ret.outcome = "ok")
   => ret.url = <<"h", "t", "t", "p", "s", ":", "/", "/">> \o DefaultBucketName
                   \o <<"/">> \o Escape(ret.path)

(* C7 as stated: after the stop hook the client handle is unset, GetClient *)
(* returns no usable client and every operation fails.                     *)
C7_HandleUnsetAfterStop ==
   lifecycle = "stopped" =>
      /\ client = "nil"
      /\ ret.op = "GetClient" => ret.handle = "nil"
      /\ ret.op \in {"SaveFile", "WriteAsFile", "DeleteFile"}
            => ret.outcome \in {"error", "panic"}

(* C7 amended: the client is live exactly between the start and the stop  *)
(* hook; after the stop hook the handle is not unset but still holds the   *)
(* client made at start, now closed, and GetClient returns that client.    *)
C7_HandleClosedAfterStop ==
   /\ (client # "nil" /\ ~closed) <=> lifecycle = "started"
   /\ lifecycle = "stopped" => (client = "c1" /\ closed)
   /\ lifecycle \in {"created", "startFailed"} => client = "nil"
   /\ ret.op = "GetClient" => (ret.handle = client /\ ret.handleClosed = closed)

C7_Witness ==
   /\ lifecycle = "stopped"
   /\ ret.op = "GetClient"
   /\ ret.handle = "c1"
   /\ ret.handleClosed

(* C8: every object SaveFile or WriteAsFile created carries the           *)
(* public-read rule (allUsers, READER), and the rule is on the writer      *)
(* before Write or Close is called on it.                                  *)
C8_PublicReadOnEveryObject ==
   /\ \A o \in store :
         o.by = "self" => o.acl = <<[Entity |-> "allUsers", Role |-> "READER"]>>
   /\ ret.op \in {"SaveFile", "WriteAsFile"} =>
         \A i \in 1..Len(ret.sdk) :
            ret.sdk[i] \in {"Write", "Close"} => \E j \in 1..(i - 1) : ret.sdk[j] = "ACL"

C8_Witness ==
   /\ ret.op = "SaveFile"
   /\ ret.outcome = "ok"
   /\ \E o1, o2 \in store :
         /\ o1.name = ret.path
         /\ o1.by = "self"
         /\ o2.name \in FilePaths
         /\ o2.by = "self"

(* C9: DeleteFileWithPrefix with a prefix no object's name starts with,   *)
(* the store answering the listing, returns nil, issues no delete and      *)
(* leaves the bucket as it is.                                             *)
C9_NoMatchNoDelete ==
   [][
      (/\ pc = "idle"
       /\ ret'.op = "DeleteFileWithPrefix"
       /\ ret'.outcome \notin {"panic"}
       /\ ret'.err \notin RemoteErrs
       /\ \A n \in Names(store) : ~HasPrefix(n, ret'.path))
      => (/\ ret'.outcome = "ok"
          /\ ret'.err = ""
          /\ ret'.issued = <<>>
          /\ \A i \in 1..Len(ret'.sdk) : ret'.sdk[i] # "Delete"
          /\ pc' = "idle"
          /\ store' = store)
   ]_vars

C9_Witness ==
   /\ ret.op = "DeleteFileWithPrefix"
   /\ ret.state = "live"
   /\ ret.outcome = "ok"
   /\ ret.listed = <<>>
   /\ ret.path = <<"c">>
   /\ store # {}
   /\ store = ret.snap

(* C10: when DeleteFileWithPrefix returns nil and nobody created objects  *)
(* during the call, no object whose name starts with the prefix is left    *)
(* and every other object that nobody else touched is there unchanged,     *)
(* also when other users deleted listed objects during the call.           *)
C10_PrefixGoneRestKept ==
   (/\ ret.op = "DeleteFileWithPrefix"
    /\ ret.outcome = "ok"
    /\ ~ret.otherCreated)
   => (/\ \A n \in Names(store) : ~HasPrefix(n, ret.path)
       /\ \A o \in ret.snap :
             (~HasPrefix(o.name, ret.path) /\ o.name \notin ret.otherTouched)
                => o \in store)

C10_Witness ==
   /\ ret.op = "DeleteFileWithPrefix"
   /\ ret.outcome = "ok"
   /\ ~ret.otherCreated
   /\ \E i \in 1..Len(ret.issued) : ret.issued[i].err = "ErrObjectNotExist"
   /\ \E i \in 1..Len(ret.issued) : ret.issued[i].err = ""
   /\ store # {}

====
